---- MODULE Spec2Model ----
(***************************************************************************)
(* A model of src/components/SudokuSolver.tsx.                             *)
(*                                                                         *)
(* solveSudoku (the deep copy of its argument, then the recursive          *)
(* backtracking search solve with its conflict check isValid) runs as an   *)
(* explicit stack machine over a heap of row arrays, so that aliasing      *)
(* between the caller's grid and the working board is something the model  *)
(* can show.  Spec and FairSpec call it on grids cut from a solved grid;   *)
(* UISpec runs it inside the component: image selection, the FileReader,   *)
(* recognizeSudoku's parsing of the answer, and handleSolvePuzzle.         *)
(***************************************************************************)
EXTENDS Integers, Sequences, FiniteSets, TLC

VARIABLES
    heap,       \* the row arrays allocated so far: heap[ref] is one number[]
    grid,       \* the argument of solveSudoku: its 9 row references
    board,      \* the working copy made at line 108: its 9 row references
    stack,      \* the activation records of solve, innermost last
    ret,        \* the value the last finished invocation of solve returned
    result,     \* what solveSudoku returned: "pending", "null" or "board"
    pc,         \* where the caller is: "ready", "solving", "returned"
    calls,      \* number of calls of solveSudoku made so far
    input,      \* history: the contents of the argument when the call was made
    undos,      \* history: how often line 141 ran during the current call
    argOrigin,  \* history: "input" when the argument is an input grid,
                \* "result" when it is the board an earlier call returned
    selectedImage,  \* useState of line 13: "null" or a file
    imagePreview,   \* useState of line 14: "null" or the data URL of a file
    isProcessing,   \* useState of line 15
    solvedGrid,     \* useState of line 16: null or the contents of a board
    readers,        \* the files whose FileReader has not yet fired onload
    awaiting,       \* the image recognizeSudoku is awaiting an answer for
    toast,          \* the last toast shown
    startedFor,     \* history: the image that was selected when the
                    \* handleSolvePuzzle call now in progress began
    solvedFrom      \* history: for a solvedGrid that is not null, the image
                    \* its grid was recognized from and the image that was
                    \* selected when the call that stored it began

solverVars == <<heap, grid, board, stack, ret, result, pc, calls, input, undos,
               argOrigin>>
uiVars == <<selectedImage, imagePreview, isProcessing, solvedGrid, readers,
            awaiting, toast, startedFor, solvedFrom>>
vars == <<heap, grid, board, stack, ret, result, pc, calls, input, undos,
          argOrigin,
          selectedImage, imagePreview, isProcessing, solvedGrid, readers,
          awaiting, toast, startedFor, solvedFrom>>

----------------------------------------------------------------------------
(* Bounds of the model *)

\* at most this many cells of the base grid are blanked in an input
MaxBlanks == 4
\* solveSudoku is called at most this many times in a row, each call after
\* the first on the board the previous call returned
MaxCalls == 2
\* the recursion of solve is cut off at this depth
MaxDepth == 7

(* Program constants *)
N == 9
Box == 3

Idx == 0 .. (N - 1)
Digits == 1 .. N

----------------------------------------------------------------------------
(* Inputs: a solved grid, some of its cells blanked, possibly one given    *)
(* digit overwritten.                                                       *)

BaseRows ==
    << <<5,3,4,6,7,8,9,1,2>>,
       <<6,7,2,1,9,5,3,4,8>>,
       <<1,9,8,3,4,2,5,6,7>>,
       <<8,5,9,7,6,1,4,2,3>>,
       <<4,2,6,8,5,3,7,9,1>>,
       <<7,1,3,9,2,4,8,5,6>>,
       <<9,6,1,5,3,7,2,8,4>>,
       <<2,8,7,4,1,9,6,3,5>>,
       <<3,4,5,2,8,6,1,7,9>> >>

BaseGrid == [r \in Idx |-> [c \in Idx |-> BaseRows[r + 1][c + 1]]]

\* the cells an input may have blank: two rectangles of the base grid whose
\* corners hold two digits crosswise, one inside two blocks (both fillings
\* are solutions), one across four blocks (the other filling breaks blocks)
BlankCandidates ==
    { <<2,4>>, <<2,5>>, <<5,4>>, <<5,5>>, <<0,0>>, <<0,8>>, <<7,0>>, <<7,8>> }

\* a given digit replaced by another one: none, one that repeats a digit in
\* its row and block, one that repeats nothing once its neighbours are blank
Overrides ==
    { <<>>, <<0, 1, 4>>, <<2, 4, 2>> }

BlankSets == { S \in SUBSET BlankCandidates : Cardinality(S) <= MaxBlanks }

MakeGrid(S, o) ==
    [r \in Idx |-> [c \in Idx |->
        IF o # <<>> /\ o[1] = r /\ o[2] = c THEN o[3]
        ELSE IF <<r, c>> \in S THEN 0
        ELSE BaseGrid[r][c]]]

InputGrids == { MakeGrid(S, o) : S \in BlankSets, o \in Overrides }

----------------------------------------------------------------------------
(* The heap of row arrays *)

\* the contents of a grid given by its row references
Deref(h, g) == [r \in Idx |-> h[g[r]]]

\* rows of grid value v stored at fresh references
AllocRows(h, v) == h \o [i \in 1 .. N |-> v[i - 1]]
FreshRefs(h) == [r \in Idx |-> Len(h) + r + 1]

\* line 108 written as [...grid]: a new outer array over the same rows
CopyGridShallow(h, g) == [heap |-> h, board |-> g]

\* line 108: grid.map(row => [...row])
CopyGrid(h, g) ==
    [heap |-> AllocRows(h, Deref(h, g)), board |-> FreshRefs(h)]

\* line 139 with the indices swapped
PlaceTransposed(h, b, row, col, num) == [h EXCEPT ![b[col]][row] = num]

\* line 139 storing the blank instead of the candidate
PlaceZero(h, b, row, col, num) == [h EXCEPT ![b[row]][col] = 0]

\* line 139: board[row][col] = num
Place(h, b, row, col, num) == [h EXCEPT ![b[row]][col] = num]

\* line 141 left out
UndoMissing(h, b, row, col) == h

\* line 141: board[row][col] = 0
Undo(h, b, row, col) == [h EXCEPT ![b[row]][col] = 0]

----------------------------------------------------------------------------
(* isValid, lines 110-131, on the contents bv of the board *)

\* isValid without the 3x3 box loop
isValidNoBox(bv, row, col, num) ==
    /\ \A i \in Idx : bv[row][i] # num
    /\ \A i \in Idx : bv[i][col] # num

isValid(bv, row, col, num) ==
    /\ \A i \in Idx : bv[row][i] # num
    /\ \A i \in Idx : bv[i][col] # num
    /\ LET boxRow == (row \div Box) * Box
           boxCol == (col \div Box) * Box
       IN  \A i \in boxRow .. (boxRow + Box - 1) :
             \A j \in boxCol .. (boxCol + Box - 1) : bv[i][j] # num

\* the cells the loops of lines 134-136 stop at: those holding 0
BlankCells(bv) == { rc \in Idx \X Idx : bv[rc[1]][rc[2]] = 0 }

\* row-major order of the two nested loops
Before(a, b) == a[1] < b[1] \/ (a[1] = b[1] /\ a[2] < b[2])

\* lines 134-136: the first cell holding 0 in row-major order
FirstBlank(bv) ==
    CHOOSE rc \in BlankCells(bv) : \A o \in BlankCells(bv) : o = rc \/ Before(rc, o)

\* line 137 counting down: for (let num = 9; num >= 1; num--)
NumAtDescending(k) == N + 1 - k

\* line 137: for (let num = 1; num <= 9; num++); the k-th candidate tried
NumAt(k) == k

\* line 148 returning false
NoBlankResultFalse == "false"

\* line 148: return true, reached when the loops find no cell holding 0
NoBlankResult == "true"

\* line 144 moved into the if of line 138: return false after the first undo
FrameAfterFalseGivesUp(f) == [f EXCEPT !.pc = "try", !.num = N + 1]

\* lines 140-143: solve returned false, so the for loop goes on with num++
FrameAfterFalse(f) == [f EXCEPT !.pc = "try", !.num = f.num + 1]

----------------------------------------------------------------------------
(* The caller: a grid to solve *)

\* the two kinds of value of solvedGrid
NullGrid == [null |-> TRUE]
SomeGrid(bv) == [null |-> FALSE, cells |-> bv]

\* solvedFrom while solvedGrid is null
NoImage == [image |-> "null", selected |-> "null"]

\* lines 13-17: the component's state after its first render
UIIdle ==
    /\ selectedImage = "null"
    /\ imagePreview = "null"
    /\ isProcessing = FALSE
    /\ solvedGrid = NullGrid
    /\ readers = {}
    /\ awaiting = "null"
    /\ toast = "none"
    /\ startedFor = "null"
    /\ solvedFrom = NoImage

Init ==
    /\ \E g \in InputGrids :
         /\ heap = AllocRows(<<>>, g)
         /\ input = g
    /\ grid = FreshRefs(<<>>)
    /\ board = FreshRefs(<<>>)
    /\ stack = <<>>
    /\ ret = "none"
    /\ result = "pending"
    /\ pc = "ready"
    /\ calls = 0
    /\ undos = 0
    /\ argOrigin = "input"
    /\ UIIdle

Top == stack[Len(stack)]
Pop == SubSeq(stack, 1, Len(stack) - 1)
SetTop(f) == [stack EXCEPT ![Len(stack)] = f]
Bv == Deref(heap, board)

NewFrame(bv) == [pc |-> "scan", row |-> 0, col |-> 0, num |-> 0, entry |-> bv]

\* lines 107-108 and the call of line 151
solveSudokuCall ==
    /\ pc = "ready"
    /\ LET cp == CopyGrid(heap, grid)
       IN  /\ heap' = cp.heap
           /\ board' = cp.board
           /\ stack' = <<NewFrame(Deref(cp.heap, cp.board))>>
    /\ input' = Deref(heap, grid)
    /\ ret' = "none"
    /\ result' = "pending"
    /\ pc' = "solving"
    /\ calls' = calls + 1
    /\ undos' = 0
    /\ UNCHANGED <<grid, argOrigin, uiVars>>

\* lines 134-136 and 148: the scan for the first blank cell
solveScan ==
    /\ pc = "solving" /\ stack # <<>> /\ Top.pc = "scan"
    /\ IF BlankCells(Bv) = {}
       THEN /\ stack' = Pop
            /\ ret' = NoBlankResult
       ELSE /\ stack' = SetTop([Top EXCEPT !.pc = "try",
                                           !.row = FirstBlank(Bv)[1],
                                           !.col = FirstBlank(Bv)[2],
                                           !.num = 1])
            /\ ret' = ret
    /\ UNCHANGED <<heap, grid, board, result, pc, calls, input, undos, argOrigin, uiVars>>

\* lines 137-140: one candidate, placed and searched below when it fits
solveTry ==
    /\ pc = "solving" /\ stack # <<>> /\ Top.pc = "try" /\ Top.num <= N
    /\ IF isValid(Bv, Top.row, Top.col, NumAt(Top.num))
       THEN /\ Len(stack) < MaxDepth
            /\ heap' = Place(heap, board, Top.row, Top.col, NumAt(Top.num))
            /\ stack' = Append(SetTop([Top EXCEPT !.pc = "called"]),
                               NewFrame(Deref(heap', board)))
       ELSE /\ heap' = heap
            /\ stack' = SetTop([Top EXCEPT !.num = Top.num + 1])
    /\ UNCHANGED <<grid, board, ret, result, pc, calls, input, undos, argOrigin, uiVars>>

\* line 144: every candidate tried, return false
solveReturnFalse ==
    /\ pc = "solving" /\ stack # <<>> /\ Top.pc = "try" /\ Top.num > N
    /\ stack' = Pop
    /\ ret' = "false"
    /\ UNCHANGED <<heap, grid, board, result, pc, calls, input, undos, argOrigin, uiVars>>

\* line 140, the recursive call returned true: return true
solveAfterCallTrue ==
    /\ pc = "solving" /\ stack # <<>> /\ Top.pc = "called" /\ ret = "true"
    /\ stack' = Pop
    /\ UNCHANGED <<heap, grid, board, ret, result, pc, calls, input, undos, argOrigin, uiVars>>

\* lines 140-141, the recursive call returned false: undo, next candidate
solveAfterCallFalse ==
    /\ pc = "solving" /\ stack # <<>> /\ Top.pc = "called" /\ ret = "false"
    /\ heap' = Undo(heap, board, Top.row, Top.col)
    /\ stack' = SetTop(FrameAfterFalse(Top))
    /\ ret' = "none"
    /\ undos' = undos + 1
    /\ UNCHANGED <<grid, board, result, pc, calls, input, argOrigin, uiVars>>

\* lines 151-154: the board when solve returned true, else null
solveSudokuReturn ==
    /\ pc = "solving" /\ stack = <<>> /\ ret # "none"
    /\ result' = (IF ret = "true" THEN "board" ELSE "null")
    /\ pc' = "returned"
    /\ UNCHANGED <<heap, grid, board, stack, ret, calls, input, undos, argOrigin, uiVars>>

\* the caller passes the board it got back to solveSudoku
CallOnResult ==
    /\ pc = "returned" /\ result = "board" /\ calls < MaxCalls
    /\ grid' = board
    /\ argOrigin' = "result"
    /\ pc' = "ready"
    /\ UNCHANGED <<heap, board, stack, ret, result, calls, input, undos, uiVars>>

\* the caller passes the same grid to solveSudoku once more
CallOnSameGrid ==
    /\ pc = "returned" /\ calls < MaxCalls
    /\ pc' = "ready"
    /\ UNCHANGED <<heap, grid, board, stack, ret, result, calls, input, undos,
                   argOrigin, uiVars>>

SolverStep ==
    \/ solveScan
    \/ solveTry
    \/ solveReturnFalse
    \/ solveAfterCallTrue
    \/ solveAfterCallFalse
    \/ solveSudokuReturn

Next ==
    \/ solveSudokuCall
    \/ SolverStep
    \/ CallOnResult
    \/ CallOnSameGrid

Spec == Init /\ [][Next]_vars

----------------------------------------------------------------------------
(* The component around the solver: image selection, the FileReader, the   *)
(* answer of the vision API and handleSolvePuzzle.  A handler runs to its  *)
(* end (or to its await) before another one starts: pc = "idle" is the     *)
(* event loop between two handlers.                                        *)

\* the files a user may select or drop; c.txt is not an image
Files ==
    { [id |-> "a.jpg", image |-> TRUE], [id |-> "b.jpg", image |-> TRUE],
      [id |-> "c.txt", image |-> FALSE] }

\* a parsed JSON value: an array with its elements, or anything else
JArr(elems) == [arr |-> TRUE, elems |-> elems]
JOther == [arr |-> FALSE, elems |-> <<>>]
GridJson(g) == JArr([i \in 1 .. N |-> JArr([j \in 1 .. N |-> g[i - 1][j - 1]])])

\* what the model may answer: 9x9 grids (one that needs backtracking, one
\* without a solution, one holding the number 10), arrays of the wrong
\* shape, a value that is no array, and text that is not JSON
Bodies ==
    { [valid |-> TRUE, value |-> GridJson(MakeGrid({<<2,4>>, <<2,5>>, <<5,4>>}, <<>>))],
      [valid |-> TRUE, value |-> GridJson(MakeGrid({<<0,0>>, <<2,5>>}, <<2, 4, 2>>))],
      [valid |-> TRUE, value |-> GridJson(MakeGrid({<<0,0>>}, <<0, 8, 10>>))],
      [valid |-> TRUE,
       value |-> JArr(SubSeq(GridJson(BaseGrid).elems, 1, N - 1))],
      [valid |-> TRUE,
       value |-> JArr([GridJson(BaseGrid).elems EXCEPT
                          ![2] = JArr(SubSeq(@.elems, 1, N - 1))])],
      [valid |-> TRUE,
       value |-> JArr([GridJson(BaseGrid).elems EXCEPT ![2] = JOther])],
      [valid |-> TRUE, value |-> JOther],
      [valid |-> FALSE, value |-> JOther] }

\* the text of the answer: a body, possibly after an opening markdown code
\* fence (three backquotes, "fence", or three backquotes and json,
\* "fence-json") and possibly before a closing one
Texts ==
    [open : {"", "fence-json", "fence"}, body : Bodies, close : {"", "fence"}]

\* how the request of lines 55-86 may end
Outcomes ==
    { [kind |-> "noKey"], [kind |-> "notOk"], [kind |-> "noText"] } \cup
    { [kind |-> "text", text |-> t] : t \in Texts }

\* lines 90-95: the opening fence and a closing fence at the end are
\* removed when the trimmed text starts with a fence
CleanText(t) ==
    IF t.open \in {"fence-json", "fence"}
    THEN [t EXCEPT !.open = "", !.close = ""]
    ELSE t

\* line 97: JSON.parse throws unless the cleaned text is JSON
ParseOk(t) == t.open = "" /\ t.close = "" /\ t.body.valid

\* line 98: an array of 9 arrays of 9 elements
GridFormatOk(v) ==
    /\ v.arr
    /\ Len(v.elems) = N
    /\ \A i \in 1 .. Len(v.elems) : v.elems[i].arr /\ Len(v.elems[i].elems) = N

ToGrid(v) == [r \in Idx |-> [c \in Idx |-> v.elems[r + 1].elems[c + 1]]]

\* lines 54-105: recognizeSudoku, given how the request ended
recognizeSudoku(o) ==
    IF o.kind # "text" THEN [threw |-> TRUE]
    ELSE LET cleanedText == CleanText(o.text)
         IN  IF ~ParseOk(cleanedText) THEN [threw |-> TRUE]
             ELSE IF ~GridFormatOk(cleanedText.body.value) THEN [threw |-> TRUE]
             ELSE [threw |-> FALSE, grid |-> ToGrid(cleanedText.body.value)]

EmptyGrid == [r \in Idx |-> [c \in Idx |-> 0]]

UIInit ==
    /\ heap = <<>>
    /\ grid = FreshRefs(<<>>)
    /\ board = FreshRefs(<<>>)
    /\ stack = <<>>
    /\ ret = "none"
    /\ result = "pending"
    /\ pc = "idle"
    /\ calls = 0
    /\ input = EmptyGrid
    /\ undos = 0
    /\ argOrigin = "input"
    /\ UIIdle

\* lines 19-32, reached from the file input (242-245) and from a drop (34-42)
handleImageSelect(file) ==
    /\ pc = "idle"
    /\ IF ~file.image
       THEN /\ toast' = "Please select a valid image file"
            /\ UNCHANGED <<selectedImage, readers, solvedGrid, solvedFrom>>
       ELSE /\ selectedImage' = file.id
            /\ readers' = readers \cup {file.id}
            /\ solvedGrid' = NullGrid
            /\ solvedFrom' = NoImage
            /\ toast' = toast
    /\ UNCHANGED <<solverVars, imagePreview, isProcessing, awaiting, startedFor>>

\* lines 27-29: a FileReader finished reading its file
readerOnLoad(f) ==
    /\ pc = "idle"
    /\ f \in readers
    /\ imagePreview' = f
    /\ readers' = readers \ {f}
    /\ UNCHANGED <<solverVars, selectedImage, isProcessing, solvedGrid,
                   awaiting, toast, startedFor, solvedFrom>>

\* lines 157-166, up to the await; the button of lines 298-306 is rendered
\* while there is a preview and no solution, and disabled while processing
handleSolvePuzzle ==
    /\ pc = "idle"
    /\ imagePreview # "null" /\ solvedGrid.null /\ ~isProcessing
    /\ IF selectedImage = "null" \/ imagePreview = "null"
       THEN /\ toast' = "Please select an image first"
            /\ UNCHANGED <<isProcessing, awaiting, startedFor>>
       ELSE /\ isProcessing' = TRUE
            /\ toast' = "Analyzing image with AI..."
            /\ awaiting' = imagePreview
            /\ startedFor' = selectedImage
    /\ UNCHANGED <<solverVars, selectedImage, imagePreview, solvedGrid, readers,
                   solvedFrom>>

\* lines 166-169 and 177-182: recognizeSudoku settles; a rejection goes to
\* catch and finally, a grid goes to solveSudoku
recognizeSettles(o) ==
    /\ pc = "idle"
    /\ awaiting # "null"
    /\ LET r == recognizeSudoku(o)
       IN  IF r.threw
           THEN /\ toast' = "Failed to process the puzzle. Please try again."
                /\ isProcessing' = FALSE
                /\ awaiting' = "null"
                /\ startedFor' = "null"
                /\ UNCHANGED solverVars
           ELSE /\ toast' = "Solving puzzle..."
                /\ heap' = AllocRows(<<>>, r.grid)
                /\ grid' = FreshRefs(<<>>)
                /\ pc' = "ready"
                /\ calls' = 0
                /\ argOrigin' = "input"
                /\ UNCHANGED <<board, stack, ret, result, input, undos,
                               isProcessing, awaiting, startedFor>>
    /\ UNCHANGED <<selectedImage, imagePreview, solvedGrid, readers, solvedFrom>>

\* lines 171-182: the solution is stored, or its absence reported
handleSolveFinish ==
    /\ pc = "returned"
    /\ awaiting # "null"
    /\ IF result = "board"
       THEN /\ solvedGrid' = SomeGrid(Bv)
            /\ solvedFrom' = [image |-> awaiting, selected |-> startedFor]
            /\ toast' = "Puzzle solved successfully!"
       ELSE /\ solvedGrid' = solvedGrid
            /\ solvedFrom' = solvedFrom
            /\ toast' = "No solution found for this puzzle"
    /\ isProcessing' = FALSE
    /\ awaiting' = "null"
    /\ startedFor' = "null"
    /\ pc' = "idle"
    /\ UNCHANGED <<heap, grid, board, stack, ret, result, calls, input, undos,
                   argOrigin, selectedImage, imagePreview, readers>>

\* lines 327-331: the button shown with a solution
resetClick ==
    /\ pc = "idle"
    /\ ~solvedGrid.null
    /\ selectedImage' = "null"
    /\ imagePreview' = "null"
    /\ solvedGrid' = NullGrid
    /\ solvedFrom' = NoImage
    /\ UNCHANGED <<solverVars, isProcessing, readers, awaiting, toast, startedFor>>

UINext ==
    \/ \E file \in Files : handleImageSelect(file)
    \/ \E f \in readers : readerOnLoad(f)
    \/ handleSolvePuzzle
    \/ \E o \in Outcomes : recognizeSettles(o)
    \/ solveSudokuCall
    \/ SolverStep
    \/ handleSolveFinish
    \/ resetClick

UISpec == UIInit /\ [][UINext]_vars

\* the synchronous search always takes its next step
FairSpec == Spec /\ WF_vars(SolverStep)

----------------------------------------------------------------------------
(* What the claims speak of *)

Cells == Idx \X Idx

\* the rows, the columns and the 3x3 blocks, each as a set of cells
Units ==
    { { <<r, c>> : c \in Idx } : r \in Idx } \cup
    { { <<r, c>> : r \in Idx } : c \in Idx } \cup
    { { <<r, c>> : r \in (br * Box) .. (br * Box + Box - 1),
                   c \in (bc * Box) .. (bc * Box + Box - 1) } :
        br \in 0 .. (Box - 1), bc \in 0 .. (Box - 1) }

\* no cell is 0 and every unit holds each digit exactly once
IsSolved(bv) ==
    \A u \in Units : \A d \in Digits :
        Cardinality({ rc \in u : bv[rc[1]][rc[2]] = d }) = 1

\* the digits a row does not hold yet
RowMissing(bv, r) == Digits \ { bv[r][c] : c \in Idx }

\* every filling of the given blank cells with digits that keeps the rows
\* free of repeats among the filled-in digits
RECURSIVE FillAll(_, _)
FillAll(bv, cells) ==
    IF cells = {} THEN {bv}
    ELSE LET rc == CHOOSE x \in cells : TRUE
         IN  UNION { FillAll([bv EXCEPT ![rc[1]][rc[2]] = d], cells \ {rc}) :
                       d \in RowMissing(bv, rc[1]) }

\* the valid completions of a grid: the solved boards that agree with it on
\* every cell that is not blank
ValidCompletions(g) == { b \in FillAll(g, BlankCells(g)) : IsSolved(b) }

\* a comes before b: at the first cell where they differ a holds the smaller
LexLess(a, b) ==
    \E rc \in Cells :
        /\ a[rc[1]][rc[2]] < b[rc[1]][rc[2]]
        /\ \A o \in Cells : Before(o, rc) => a[o[1]][o[2]] = b[o[1]][o[2]]

NumBlanks(g) == Cardinality(BlankCells(g))
Returned == pc = "returned"
Solvable == ValidCompletions(input) # {}

----------------------------------------------------------------------------
\* C1: for a grid that has a valid completion, the board solveSudoku
\* returns has no 0 cell and every row, column and 3x3 block of it holds
\* each of the digits 1-9 exactly once.
C1_SolvedBoardIsValid ==
    (Returned /\ Solvable /\ result = "board") => IsSolved(Bv)

C1_Witness ==
    Returned /\ Solvable /\ result = "board" /\ NumBlanks(input) >= 3
    /\ undos > 0

\* C2: for a grid that has no valid completion (its givens repeat a digit
\* in a unit, blanks or none), solveSudoku returns null.
C2_UnsolvableReturnsNull ==
    (Returned /\ ~Solvable) => result = "null"

\* C3: for a grid that has a valid completion solveSudoku returns a board,
\* not null.
C3_NullOnlyWhenUnsolvable ==
    (Returned /\ Solvable) => result = "board"

C3_Witness ==
    Returned /\ Solvable /\ undos > 0 /\ result = "board"

\* C4: an already complete valid grid is returned cell for cell, and a
\* second call on the board a first call returned returns that same board.
C4_Idempotent ==
    /\ (Returned /\ BlankCells(input) = {} /\ IsSolved(input))
          => (result = "board" /\ Bv = input)
    /\ (Returned /\ argOrigin = "result") => (result = "board" /\ Bv = input)

C4_Witness ==
    Returned /\ argOrigin = "result" /\ result = "board" /\ IsSolved(input)

\* C5: during and after a call the caller's grid holds what it held before
\* the call; the board's rows are none of the argument's rows, and a step
\* of the search writes to rows of the board of the current call only.
C5_ArgumentUntouched ==
    /\ [](pc \in {"solving", "returned"} =>
            /\ Deref(heap, grid) = input
            /\ \A r \in Idx, q \in Idx : board[r] # grid[q])
    /\ [][\A ref \in DOMAIN heap :
            heap'[ref] # heap[ref] => \E r \in Idx : board'[r] = ref]_vars

C5_Witness ==
    pc = "solving" /\ Bv # input /\ Deref(heap, grid) = input /\ calls >= 2

\* C7: every call of solveSudoku returns, and solve never recurses deeper
\* than the number of blank cells of the input plus one.
C7_Terminates ==
    /\ [](Len(stack) <= NumBlanks(input) + 1)
    /\ (pc = "solving") ~> (pc = "returned")

C7_Witness ==
    pc = "solving" /\ NumBlanks(input) >= 3
    /\ Len(stack) = NumBlanks(input) + 1

\* C8: every activation of solve works on the first blank cell in row-major
\* order, and for a grid with a valid completion the returned board is the
\* least valid completion: at the first cell where it differs from another
\* valid completion it holds the smaller digit.
C8_LexSmallest ==
    /\ \A i \in 1 .. Len(stack) :
          stack[i].pc = "try" =>
             /\ Bv[stack[i].row][stack[i].col] = 0
             /\ \A o \in Cells : Before(o, <<stack[i].row, stack[i].col>>)
                                    => Bv[o[1]][o[2]] # 0
    /\ (Returned /\ Solvable) =>
          /\ result = "board"
          /\ Bv \in ValidCompletions(input)
          /\ \A c \in ValidCompletions(input) : c = Bv \/ LexLess(Bv, c)

C8_Witness ==
    Returned /\ result = "board" /\ Cardinality(ValidCompletions(input)) >= 2

\* C9: a tentative placement is undone on failure: between two candidates,
\* and when an activation of solve is about to return false, the board is
\* what it was when that activation was entered, and when solveSudoku
\* returns null the board equals the input grid.
C9_UndoOnFailure ==
    /\ (pc = "solving" /\ stack # <<>> /\ Top.pc = "try") => Bv = Top.entry
    /\ (Returned /\ result = "null") => Bv = input

C9_Witness ==
    Returned /\ result = "null" /\ undos > 0

\* C10: givens are never changed: during the search and in the returned
\* board every cell that is not 0 in the input holds its input value.
C10_GivensKept ==
    pc \in {"solving", "returned"} =>
        \A rc \in Cells :
            input[rc[1]][rc[2]] # 0 => Bv[rc[1]][rc[2]] = input[rc[1]][rc[2]]

C10_Witness ==
    Returned /\ result = "board" /\ NumBlanks(input) >= 3 /\ Bv # input

\* a board of the data model: every cell an integer in 0..9
IsBoard(g) == \A rc \in Cells : g[rc[1]][rc[2]] \in 0 .. N

\* C6: every grid handleSolvePuzzle passes to solveSudoku is a 9x9 board
\* of integers in 0..9, so no solution holding another value is ever stored.
C6_SolverGetsBoards ==
    /\ pc \in {"ready", "solving", "returned"} => IsBoard(Deref(heap, grid))
    /\ ~solvedGrid.null => IsBoard(solvedGrid.cells)

\* C11: under every interleaving of handleImageSelect, the FileReader's
\* onload and handleSolvePuzzle, a solvedGrid that is not null, stored by a
\* handleSolvePuzzle call that began on the preview of the image selected
\* then, is the solution of the grid recognized from the image that is
\* selected now: selecting another image while the call awaits
\* recognizeSudoku does not let it store the earlier image's solution.
C11_SolutionOfSelectedImage ==
    (~solvedGrid.null /\ solvedFrom.image = solvedFrom.selected)
        => solvedFrom.image = selectedImage

====
